---- MODULE Spec2Model ----
(***************************************************************************)
(* The concurrency backends of python_async_tools (backends.py): the       *)
(* asyncio, trio and anyio adapters of spawn_many and cancellation_storm,  *)
(* run on a cooperative single-threaded scheduler.  A launcher coroutine   *)
(* and the units it launched interleave only at suspension points.         *)
(***************************************************************************)
EXTENDS Integers, Sequences, FiniteSets, TLC

\* ------------------------------------------------------------------ bounds
MaxUnits == 2
MaxCancelAfter == 1
MaxTime == 2
MaxReps == 2
MaxOps == 2
MaxSeed == 1
MaxMeanDelay == 2
MaxLen == 4
MaxValue == 4

\* --------------------------------------------------------------- constants
Backends == {"asyncio", "trio", "anyio"}
Ops == {"spawn_many", "cancellation_storm"}
\* Behaviours of the callable handed to spawn_many: sleep once, then return
\* a value ("ok") or raise an error ("fail").
SpawnKinds == {"ok", "fail"}
\* Behaviours of task_fn in a storm: "loop" is _long_task (sleeps forever,
\* exits only when cancelled); "ok" returns after one sleep; "fail" raises
\* after one sleep; "fail_on_cancel" loops and raises another error when it
\* observes the cancellation; "stubborn" loops and swallows the cancellation.
StormKinds == {"loop", "ok", "fail", "fail_on_cancel", "stubborn"}
None == -1

VARIABLES
    backend,        \* the backend whose run context is open ("none": no call)
    op,             \* operation under call (input)
    count,          \* count / task_count (input)
    kinds,          \* kinds[i]: behaviour of fn(i) / task_fn(i) (input)
    cancel_after,   \* cancel_after (input)
    pc,             \* position of the launcher coroutine
    ust,            \* ust[i]: status of unit i
    cancelPending,  \* cancelPending[i]: a cancellation waits at i's next suspension point
    cancelReq,      \* cancelReq[i]: number of cancellation requests made on live unit i
    stormSignalled, \* the live units the storm's own signal was issued to
    nurseryCancelled, \* the nursery's / task group's cancel scope is cancelled
    childError,     \* the nursery / task group holds a child's error
    scopes,         \* trio storm: the cancel scopes registered by started runners
    sigIdx,         \* number of loop iterations of the signalling loop done
    taskResult,     \* asyncio: result stored in each Task
    results,        \* the list spawn_many returns
    completed,      \* number of units that returned normally so far
    cancelled,      \* storm counter
    other_errors,   \* storm counter
    result,         \* the dict cancellation_storm returns
    now,            \* monotonic clock, read relative to the launch of the open call
    launched_at,    \* clock value when the units were launched
    cancel_start,   \* clock value read just before signalling
    nCancelRequested, \* how many times the storm entered CancelRequested
    firstFail,      \* spawn_many: "none", or whether the first unit to fail had a
                    \* sibling still running ("with_siblings") or not ("alone")
    policy,         \* per backend: what the last failing spawn_many did to siblings
    stormOutcome,   \* per backend: how its last storm ended (recorded for comparison)
    \* ---- the orchestrator (runner.py)
    libraries,      \* args.libraries
    benchmarks,     \* args.benchmarks
    repetitions,    \* args.repetitions
    params,         \* build_params(args): one parameter object per scenario
    mpc,            \* position of main()
    li,             \* index into libraries of the running combination
    si,             \* index into benchmarks of the running combination
    rep,            \* rep of the running combination (0-based, as in range)
    entries,        \* the list of result entries
    returnedEntries, \* the entries as run_benchmark returned them
    openContexts,   \* number of backend.run contexts open
    nStarted,       \* number of combinations started so far
    failedAt,       \* nStarted when a combination failed (None: none failed)
    documents,      \* number of result documents written
    \* the I/O-bound scenario, run twice
    seed,           \* IOBoundParams.seed (input)
    concurrency,    \* IOBoundParams.concurrency (input)
    ops_per_worker, \* IOBoundParams.ops_per_worker (input)
    mean_delay_ms,  \* IOBoundParams.mean_delay_ms (input)
    ioBackend,      \* the backend running run_io_bound ("none": not running)
    ioRunNo,        \* number of runs of run_io_bound started
    rng,            \* state of the scenario's random generator
    wst,            \* wst[w]: status of worker w
    opsDrawn,       \* opsDrawn[w]: iterations worker w has begun
    delayLog,       \* delayLog[r]: the delays drawn in run r, in draw order
    op_latencies,   \* op_latencies[w]: latencies worker w has appended to the list
    ioMetrics,      \* what run_io_bound returned
    callDelays,     \* callDelays[r][w]: the delays of worker w's calls in run r
    \* the statistics helpers
    values,         \* the sample (input)
    pct,            \* the percentile asked for (input)
    pctOut,         \* what percentile(values, pct) gave
    meanOut,        \* what mean(values) gave
    floatOut,       \* the float percentile(values, pct) returned
    \* backend.run as its caller sees it
    runResult,      \* what the last backend.run gave, and the units it left
    \* the task-spawn scenario
    tsBackend,      \* the backend running run_task_spawn ("none": not running)
    task_count,     \* TaskSpawnParams.task_count (input)
    payload_sleep,  \* TaskSpawnParams.payload_sleep (input)
    tst,            \* tst[u]: status of unit u
    sleepLog,       \* sleepLog[u]: the durations unit u has called sleep with
    latencies,      \* latencies[u]: latencies unit u has appended to the list
    tsMetrics,      \* what run_task_spawn returned
    \* the cancellation scenario
    csRuns,         \* number of run_cancellation calls that have returned
    finished_at,    \* run_cancellation's second clock reading
    scenarioResult  \* what the last run_cancellation returned

backendVars == << backend, op, count, kinds, cancel_after, pc, ust, cancelPending,
                  cancelReq, stormSignalled, nurseryCancelled, childError, scopes,
                  sigIdx, taskResult, results, completed, cancelled, other_errors,
                  result, now, launched_at, cancel_start, nCancelRequested,
                  firstFail, policy >>

orchVars == << libraries, benchmarks, repetitions, params, mpc, li, si, rep,
               entries, returnedEntries, openContexts, nStarted, failedAt,
               documents >>

\* What the backends' operations leave alone.
ioVars == << seed, concurrency, ops_per_worker, mean_delay_ms, ioBackend,
             ioRunNo, rng, wst, opsDrawn, delayLog, op_latencies, ioMetrics,
             callDelays >>

utilVars == << values, pct, pctOut, meanOut, floatOut >>

taskVars == << tsBackend, task_count, payload_sleep, tst, sleepLog, latencies,
               tsMetrics >>

scenVars == << csRuns, finished_at, scenarioResult >>

extraVars == << ioVars, utilVars, runResult, taskVars, scenVars >>

\* What the I/O-bound scenario leaves alone.
ioRest == << backendVars, stormOutcome, orchVars, utilVars, runResult,
            taskVars, scenVars >>

\* What the statistics helpers leave alone.
utilRest == << backendVars, stormOutcome, orchVars, ioVars, runResult,
              taskVars, scenVars >>

\* What the task-spawn scenario leaves alone.
taskRest == << backendVars, stormOutcome, orchVars, ioVars, utilVars, runResult,
               scenVars >>

restVars == << stormOutcome, orchVars, extraVars >>

vars == << backendVars, stormOutcome, orchVars, extraVars >>

inputs == << op, count, kinds, cancel_after >>

Units == 0 .. (count - 1)

\* The value fn(i) returns.
FnValue(i) == 10 + i

NoResult == [cancelled |-> None, exceptions |-> None, settle_s |-> None]
NoPolicy == [seen |-> FALSE, cancelledSiblings |-> FALSE, dangling |-> FALSE]

NoOutcome == [seen |-> FALSE, exits |-> << >>, raised |-> FALSE,
              cancelled |-> None, exceptions |-> None]

\* main() has not been entered.
OrchIdle ==
    /\ libraries = << >>
    /\ benchmarks = << >>
    /\ repetitions = 0
    /\ params = << >>
    /\ mpc = "off"
    /\ li = 0
    /\ si = 0
    /\ rep = 0
    /\ entries = << >>
    /\ returnedEntries = << >>
    /\ openContexts = 0
    /\ nStarted = 0
    /\ failedAt = None
    /\ documents = 0

\* run_io_bound has not returned.
NoIoMetrics == [seen |-> FALSE, workers |-> 0, ops |-> 0, recorded |-> 0]

\* run_io_bound has not been called.
IoIdle ==
    /\ seed = 0
    /\ concurrency = 0
    /\ ops_per_worker = 0
    /\ mean_delay_ms = 0
    /\ ioBackend = "none"
    /\ ioRunNo = 0
    /\ rng = 0
    /\ wst = << >>
    /\ opsDrawn = << >>
    /\ delayLog = << >>
    /\ op_latencies = << >>
    /\ ioMetrics = NoIoMetrics
    /\ callDelays = << >>

\* The outcome of a call that has not been made: a rational num / den, or
\* an exception.
NoOut == [done |-> FALSE, raised |-> FALSE, num |-> 0, den |-> 1]

\* No helper has been called.
\* percentile has not returned a float.
NoFloat == [done |-> FALSE, m |-> << >>, e |-> 0]

UtilIdle ==
    /\ values = << >>
    /\ pct = 0
    /\ pctOut = NoOut
    /\ meanOut = NoOut
    /\ floatOut = NoFloat

\* backend.run has not returned yet.
NoRun ==
    [seen |-> FALSE, raised |-> FALSE,
     results |-> << >>, result |-> NoResult,
     entryResults |-> << >>, entryResult |-> NoResult,
     units |-> << >>]

\* run_task_spawn has not returned.
NoTsMetrics == [seen |-> FALSE, tasks |-> 0, recorded |-> 0]

\* run_task_spawn has not been called.
TaskIdle ==
    /\ tsBackend = "none"
    /\ task_count = 0
    /\ payload_sleep = 0
    /\ tst = << >>
    /\ sleepLog = << >>
    /\ latencies = << >>
    /\ tsMetrics = NoTsMetrics

\* run_cancellation has not returned.
NoScenarioResult ==
    [seen |-> FALSE, result |-> NoResult, storm |-> NoResult,
     launched_at |-> None, cancel_start |-> None]

\* run_cancellation has not been called.
ScenIdle ==
    /\ csRuns = 0
    /\ finished_at = None
    /\ scenarioResult = NoScenarioResult

ExtraIdle == IoIdle /\ UtilIdle /\ runResult = NoRun /\ TaskIdle /\ ScenIdle

Alive(u) == ust[u] \in {"created", "suspended"}
Exited(u) == ust[u] \in {"done", "failed", "cancelled"}
Started(u) == ust[u] # "created"


AllExited == \A u \in Units : Exited(u)
AllStarted == \A u \in Units : Started(u)
NoneStarted == \A u \in Units : ~Started(u)

\* A signalling loop that yields to the scheduler between two iterations.
LoopFreeWithYieldingLoop == pc \in {"sleeping", "signalling", "joining", "returned", "raised"}

\* Units run only while the launcher is suspended at an await (or has left
\* the call): the scheduler is cooperative, one coroutine runs at a time.
LoopFree == pc \in {"sleeping", "joining", "returned", "raised"}

Structured == backend \in {"trio", "anyio"}
IsStorm == op = "cancellation_storm"

\* A launcher that creates the first unit only and leaves the others for
\* later.
LaunchStatusLazy(u) == IF u = 0 THEN "created" ELSE "none"

\* The launcher's loop creates a task / starts a runner for every index
\* before it goes on.
LaunchStatus(u) == "created"

\* A counter that keeps what the previous call on the backend left in it.
TallyCarriedOver(old) == old

\* "cancelled = 0", "other_errors = 0": the counters are locals of the call.
FreshTally(old) == 0

\* State of a call once the launcher has created its units.
FreshCall ==
    /\ ust' = [u \in Units |-> LaunchStatus(u)]
    /\ cancelPending' = [u \in Units |-> FALSE]
    /\ cancelReq' = [u \in Units |-> 0]
    /\ stormSignalled' = {}
    /\ nurseryCancelled' = FALSE
    /\ childError' = FALSE
    /\ scopes' = << >>
    /\ sigIdx' = 0
    /\ taskResult' = [u \in Units |-> None]
    /\ completed' = 0
    /\ cancelled' = FreshTally(cancelled)
    /\ other_errors' = FreshTally(other_errors)
    /\ result' = NoResult
    /\ now' = 0
    /\ launched_at' = 0
    /\ cancel_start' = None
    /\ nCancelRequested' = 0
    /\ firstFail' = "none"

BackendInit ==
    /\ backend = "none"
    /\ op \in Ops
    /\ count \in 0 .. MaxUnits
    /\ kinds \in [0 .. (count - 1) -> IF op = "spawn_many" THEN SpawnKinds ELSE StormKinds]
    /\ cancel_after \in IF op = "cancellation_storm" THEN 0 .. MaxCancelAfter ELSE {0}
    /\ pc = "idle"
    /\ ust = [u \in 0 .. (count - 1) |-> "none"]
    /\ cancelPending = [u \in 0 .. (count - 1) |-> FALSE]
    /\ cancelReq = [u \in 0 .. (count - 1) |-> 0]
    /\ stormSignalled = {}
    /\ nurseryCancelled = FALSE
    /\ childError = FALSE
    /\ scopes = << >>
    /\ sigIdx = 0
    /\ taskResult = [u \in 0 .. (count - 1) |-> None]
    /\ results = << >>
    /\ completed = 0
    /\ cancelled = 0
    /\ other_errors = 0
    /\ result = NoResult
    /\ now = 0
    /\ launched_at = None
    /\ cancel_start = None
    /\ nCancelRequested = 0
    /\ firstFail = "none"
    /\ policy = [b \in Backends |-> NoPolicy]

Init ==
    /\ BackendInit
    /\ stormOutcome = [b \in Backends |-> NoOutcome]
    /\ OrchIdle
    /\ ExtraIdle

\* ------------------------------------------------------------ the units

\* The units a launcher creates are queued together: each takes its first
\* step before any of them takes a later step, which waits for the unit's own
\* sleep to end.  After sleep(0) the launcher is back in the run queue behind
\* (trio: in the same batch as) those first steps and ahead of every later
\* step.
\* Units run one after another: a unit runs only while no other unit is
\* suspended.
RunQueueOneAtATime(u) == \A v \in Units : v # u => ust[v] # "suspended"

RunQueueAllows(u) ==
    \/ ust[u] = "created"
    \/ AllStarted /\ ~(pc = "sleeping" /\ cancel_after = 0)

\* What unit u does when the scheduler resumes it.
UnitOutcome(u) ==
    IF cancelPending[u]
    THEN IF backend = "asyncio" /\ ust[u] = "created" THEN "cancelled"
         ELSE IF kinds[u] = "fail_on_cancel" THEN "raise"
         ELSE IF kinds[u] = "stubborn" THEN "swallow"
         ELSE "cancelled"
    ELSE IF ust[u] = "created" THEN "start"
    ELSE IF kinds[u] = "ok" THEN "return"
    ELSE IF kinds[u] = "fail" THEN "raise"
    ELSE "blocked"

\* A runner that appends its result in completion order.
ResultSlotByCompletion(idx) == completed + 1

\* Slot of the results list the trio/anyio runner of unit idx writes.
ResultSlot(idx) == idx + 1

\* A runner whose increment writes back a count read before the other units ran.
RunnerCancelledTallyStale(o) ==
    IF o = "cancelled" /\ Structured /\ IsStorm THEN 1 ELSE cancelled

\* "cancelled += 1" in the except branch of the trio / anyio storm runner: read
\* and write happen in one scheduling step.
RunnerCancelledTally(o) ==
    IF o = "cancelled" /\ Structured /\ IsStorm THEN cancelled + 1 ELSE cancelled

\* A runner whose "except Exception" branch also takes the cancellation, so a
\* cancelled unit is tallied in both counters.
RunnerOtherErrorsTallyAnyExit(o) ==
    IF o \in {"raise", "cancelled"} /\ Structured /\ IsStorm
    THEN other_errors + 1 ELSE other_errors

\* A runner whose increment writes back a count read before the other units ran.
RunnerOtherErrorsTallyStale(o) ==
    IF o = "raise" /\ Structured /\ IsStorm THEN 1 ELSE other_errors

\* "other_errors += 1" in the except branch of the trio / anyio storm runner.
RunnerOtherErrorsTally(o) ==
    IF o = "raise" /\ Structured /\ IsStorm THEN other_errors + 1 ELSE other_errors

\* One scheduling step of unit u: from one suspension point to the next, or
\* to its exit through the backend's runner.
UnitStep(u) ==
    /\ LoopFree
    /\ u \in Units
    /\ Alive(u)
    /\ RunQueueAllows(u)
    /\ LET o == UnitOutcome(u)
           fails == o = "raise"
           newlyCancelled == Structured /\ fails /\ ~nurseryCancelled
           sibs == {v \in Units \ {u} : Alive(v)}
       IN
       /\ o # "blocked"
       /\ ust' = [ust EXCEPT ![u] =
                    CASE o = "start" -> "suspended"
                      [] o = "swallow" -> "suspended"
                      [] o = "return" -> "done"
                      [] o = "raise" -> "failed"
                      [] o = "cancelled" -> "cancelled"]
       /\ scopes' = IF backend = "trio" /\ IsStorm /\ ust[u] = "created"
                    THEN Append(scopes, u) ELSE scopes
       /\ cancelPending' = [v \in Units |->
                    IF v = u
                    THEN (IF o = "swallow" /\ backend = "asyncio" THEN FALSE ELSE cancelPending[u])
                    ELSE (IF newlyCancelled /\ v \in sibs THEN TRUE ELSE cancelPending[v])]
       /\ cancelReq' = [v \in Units |->
                    IF newlyCancelled /\ v \in sibs THEN cancelReq[v] + 1 ELSE cancelReq[v]]
       /\ nurseryCancelled' = (nurseryCancelled \/ (Structured /\ fails))
       /\ childError' = (childError \/ (Structured /\ fails))
       /\ taskResult' = IF o = "return" /\ backend = "asyncio" /\ ~IsStorm
                        THEN [taskResult EXCEPT ![u] = FnValue(u)] ELSE taskResult
       /\ results' = IF o = "return" /\ Structured /\ ~IsStorm
                     THEN [results EXCEPT ![ResultSlot(u)] = FnValue(u)] ELSE results
       /\ completed' = IF o = "return" THEN completed + 1 ELSE completed
       /\ cancelled' = RunnerCancelledTally(o)
       /\ other_errors' = RunnerOtherErrorsTally(o)
       /\ firstFail' = IF fails /\ ~IsStorm /\ firstFail = "none"
                       THEN (IF sibs = {} THEN "alone" ELSE "with_siblings")
                       ELSE firstFail
    /\ UNCHANGED << backend, inputs, pc, sigIdx, result, now, launched_at,
                    cancel_start, nCancelRequested, stormSignalled, policy >>
    /\ UNCHANGED restVars


\* -------------------------------------------------------- spawn_many

\* A gather that resolves with the first task done.
GatherFirstDone == \E u \in Units : Exited(u)

\* The join of asyncio.gather: every task is done.
GatherAllDone == \A u \in Units : Exited(u)

\* A block exit that waits for one child only.
NurseryFirstChildExited == \E u \in Units : Exited(u)

\* The join of a nursery / task group block: every child has exited.
NurseryChildrenExited == \A u \in Units : Exited(u)

\* What a failing spawn_many did to the siblings of the failed unit.
ObservedPolicy ==
    [seen |-> TRUE,
     cancelledSiblings |-> (\E u \in Units : cancelReq[u] > 0),
     dangling |-> (\E u \in Units : Alive(u))]

\* AsyncioBackend.spawn_many up to its await: the tasks are created and the
\* caller waits in gather.
AsyncioSpawnMany ==
    /\ pc = "idle" /\ op = "spawn_many"
    /\ backend' = "asyncio"
    /\ FreshCall
    /\ results' = << >>
    /\ pc' = "joining"
    /\ UNCHANGED << inputs, policy >>
    /\ UNCHANGED restVars

\* gather(*tasks) resolves with the results, in the order of the tasks.
AsyncioSpawnManyReturn ==
    /\ pc = "joining" /\ backend = "asyncio" /\ op = "spawn_many"
    /\ GatherAllDone
    /\ ~\E u \in Units : ust[u] = "failed"
    /\ results' = [i \in 1 .. count |-> taskResult[i - 1]]
    /\ pc' = "returned"
    /\ UNCHANGED << backend, inputs, ust, cancelPending, cancelReq, stormSignalled, nurseryCancelled,
                    childError, scopes, sigIdx, taskResult, completed, cancelled,
                    other_errors, result, now, launched_at, cancel_start,
                    nCancelRequested, firstFail, policy >>
    /\ UNCHANGED restVars

\* gather(*tasks) without return_exceptions: the first failure of a task is
\* raised in the caller; the other tasks are left as they are.
AsyncioSpawnManyRaise ==
    /\ pc = "joining" /\ backend = "asyncio" /\ op = "spawn_many"
    /\ \E u \in Units : ust[u] = "failed"
    /\ pc' = "raised"
    /\ policy' = IF firstFail = "with_siblings"
                 THEN [policy EXCEPT !["asyncio"] = ObservedPolicy] ELSE policy
    /\ UNCHANGED << backend, inputs, ust, cancelPending, cancelReq, stormSignalled, nurseryCancelled,
                    childError, scopes, sigIdx, taskResult, results, completed,
                    cancelled, other_errors, result, now, launched_at, cancel_start,
                    nCancelRequested, firstFail >>
    /\ UNCHANGED restVars

\* spawn_many of a structured backend up to the end of the nursery / task
\* group block: results = [None] * count, every runner is started, and the
\* caller waits in the block's exit.
StructuredSpawnMany(b) ==
    /\ pc = "idle" /\ op = "spawn_many"
    /\ backend' = b
    /\ FreshCall
    /\ results' = [i \in 1 .. count |-> None]
    /\ pc' = "joining"
    /\ UNCHANGED << inputs, policy >>
    /\ UNCHANGED restVars

\* The exit of the nursery / task group block of spawn_many: it waits for
\* every child, then raises the children's errors or lets the call return.
StructuredSpawnManyExit(b) ==
    /\ pc = "joining" /\ backend = b /\ op = "spawn_many"
    /\ NurseryChildrenExited
    /\ pc' = IF childError THEN "raised" ELSE "returned"
    /\ policy' = IF childError /\ firstFail = "with_siblings"
                 THEN [policy EXCEPT ![b] = ObservedPolicy] ELSE policy
    /\ UNCHANGED << backend, inputs, ust, cancelPending, cancelReq, stormSignalled, nurseryCancelled,
                    childError, scopes, sigIdx, taskResult, results, completed,
                    cancelled, other_errors, result, now, launched_at, cancel_start,
                    nCancelRequested, firstFail >>
    /\ UNCHANGED restVars

TrioSpawnMany == StructuredSpawnMany("trio")
TrioSpawnManyExit == StructuredSpawnManyExit("trio")
AnyioSpawnMany == StructuredSpawnMany("anyio")
AnyioSpawnManyExit == StructuredSpawnManyExit("anyio")


\* ------------------------------------------------- cancellation_storm

\* Request cancellation of the live units in S (a cancel() of a task or of a
\* scope that holds them); a unit that has exited is not affected.
CancelUnits(S) ==
    /\ cancelPending' = [v \in Units |-> IF v \in S /\ Alive(v) THEN TRUE ELSE cancelPending[v]]
    /\ cancelReq' = [v \in Units |-> IF v \in S /\ Alive(v) THEN cancelReq[v] + 1 ELSE cancelReq[v]]
    /\ stormSignalled' = stormSignalled \cup {v \in S : Alive(v)}

\* The launch of a storm, up to the launcher's sleep(cancel_after).
StormLaunch(b) ==
    /\ pc = "idle" /\ op = "cancellation_storm"
    /\ backend' = b
    /\ FreshCall
    /\ results' = << >>
    /\ pc' = "sleeping"
    /\ UNCHANGED << inputs, policy >>
    /\ UNCHANGED restVars

\* A sleep that may return before its duration is over.
SleepReturnsAtOnce == now >= launched_at

\* cancel_after has elapsed on the clock since the launch.
CancelAfterElapsed == now >= launched_at + cancel_after

\* asyncio runs its ready queue first-in first-out: the created tasks take
\* their first step before the launcher's sleep, even sleep(0), returns.
\* A launcher that resumes from its sleep however little time has passed.
AsyncioLauncherResumesEarly == AllStarted

AsyncioLauncherMayResume == CancelAfterElapsed /\ AllStarted

\* trio runs the runnable tasks in batches and may reverse a batch: after
\* sleep(0) the launcher is in the same batch as the children it started and
\* runs after all of them or before all of them; a positive sleep returns in
\* a later batch.
TrioLauncherMayResume ==
    /\ CancelAfterElapsed
    /\ IF cancel_after = 0 THEN AllStarted \/ NoneStarted ELSE AllStarted

AsyncioCancellationStorm == StormLaunch("asyncio")

\* asyncio.sleep(cancel_after) returns; cancel_start is read; the for loop
\* over tasks begins.
AsyncioStormWake ==
    /\ pc = "sleeping" /\ backend = "asyncio"
    /\ AsyncioLauncherMayResume
    /\ cancel_start' = now
    /\ nCancelRequested' = nCancelRequested + 1
    /\ sigIdx' = 0
    /\ pc' = IF count = 0 THEN "joining" ELSE "signalling"
    /\ UNCHANGED << backend, inputs, ust, cancelPending, cancelReq, stormSignalled, nurseryCancelled,
                    childError, scopes, taskResult, results, completed, cancelled,
                    other_errors, result, now, launched_at, firstFail, policy >>
    /\ UNCHANGED restVars

\* One iteration of "for task in tasks: task.cancel()"; after the last one
\* the launcher awaits gather.
AsyncioCancelTask ==
    /\ pc = "signalling" /\ backend = "asyncio"
    /\ sigIdx < count
    /\ CancelUnits({sigIdx})
    /\ sigIdx' = sigIdx + 1
    /\ pc' = IF sigIdx + 1 = count THEN "joining" ELSE "signalling"
    /\ UNCHANGED << backend, inputs, ust, nurseryCancelled, childError, scopes,
                    taskResult, results, completed, cancelled, other_errors, result,
                    now, launched_at, cancel_start, nCancelRequested, firstFail, policy >>
    /\ UNCHANGED restVars

\* A tally that takes every outcome that is not an error for a cancellation.
AsyncioCancelledCountNotError == Cardinality({u \in Units : ust[u] # "failed"})

\* sum(isinstance(res, asyncio.CancelledError) for res in results)
AsyncioCancelledCount == Cardinality({u \in Units : ust[u] = "cancelled"})

\* A tally of errors that does not leave the cancellations out.
AsyncioOtherErrorsCountInclCancelled ==
    Cardinality({u \in Units : ust[u] \in {"failed", "cancelled"}})

\* sum(1 for res in results if isinstance(res, Exception)
\*     and not isinstance(res, asyncio.CancelledError))
AsyncioOtherErrorsCount == Cardinality({u \in Units : ust[u] = "failed"})

\* gather(*tasks, return_exceptions=True) resolves once every task is done;
\* the outcomes are tallied and the dict is returned.
AsyncioStormReturn ==
    /\ pc = "joining" /\ backend = "asyncio" /\ op = "cancellation_storm"
    /\ GatherAllDone
    /\ result' = [cancelled |-> AsyncioCancelledCount,
                  exceptions |-> AsyncioOtherErrorsCount,
                  settle_s |-> now - cancel_start]
    /\ pc' = "returned"
    /\ UNCHANGED << backend, inputs, ust, cancelPending, cancelReq, stormSignalled, nurseryCancelled,
                    childError, scopes, sigIdx, taskResult, results, completed,
                    cancelled, other_errors, now, launched_at, cancel_start,
                    nCancelRequested, firstFail, policy >>
    /\ UNCHANGED restVars

TrioCancellationStorm == StormLaunch("trio")

\* trio.sleep(cancel_after) returns; cancel_start is read; the for loop over
\* scopes begins.
TrioStormWake ==
    /\ pc = "sleeping" /\ backend = "trio"
    /\ ~nurseryCancelled
    /\ TrioLauncherMayResume
    /\ cancel_start' = now
    /\ nCancelRequested' = nCancelRequested + 1
    /\ sigIdx' = 0
    /\ pc' = IF Len(scopes) = 0 THEN "joining" ELSE "signalling"
    /\ UNCHANGED << backend, inputs, ust, cancelPending, cancelReq, stormSignalled, nurseryCancelled,
                    childError, scopes, taskResult, results, completed, cancelled,
                    other_errors, result, now, launched_at, firstFail, policy >>
    /\ UNCHANGED restVars

\* One iteration of "for scope in scopes: scope.cancel()"; after the last
\* one the nursery block ends and the launcher waits in its exit.
TrioCancelScope ==
    /\ pc = "signalling" /\ backend = "trio"
    /\ sigIdx < Len(scopes)
    /\ CancelUnits({scopes[sigIdx + 1]})
    /\ sigIdx' = sigIdx + 1
    /\ pc' = IF sigIdx + 1 = Len(scopes) THEN "joining" ELSE "signalling"
    /\ UNCHANGED << backend, inputs, ust, nurseryCancelled, childError, scopes,
                    taskResult, results, completed, cancelled, other_errors, result,
                    now, launched_at, cancel_start, nCancelRequested, firstFail, policy >>
    /\ UNCHANGED restVars

\* The nursery / task group was cancelled by a child's error while the
\* launcher sleeps inside the block: the sleep raises the cancellation, the
\* rest of the block is skipped and the launcher waits in the block's exit.
StormSleepCancelled(b) ==
    /\ pc = "sleeping" /\ backend = b
    /\ nurseryCancelled
    /\ pc' = "joining"
    /\ UNCHANGED << backend, inputs, ust, cancelPending, cancelReq, stormSignalled, nurseryCancelled,
                    childError, scopes, sigIdx, taskResult, results, completed,
                    cancelled, other_errors, result, now, launched_at, cancel_start,
                    nCancelRequested, firstFail, policy >>
    /\ UNCHANGED restVars

\* The exit of the nursery / task group block of a storm: it waits for every
\* child; a child's error is raised out of cancellation_storm, otherwise
\* settle is computed and the dict is returned.
StormExit(b) ==
    /\ pc = "joining" /\ backend = b /\ op = "cancellation_storm"
    /\ NurseryChildrenExited
    /\ pc' = IF childError THEN "raised" ELSE "returned"
    /\ result' = IF childError THEN result
                 ELSE [cancelled |-> cancelled, exceptions |-> other_errors,
                       settle_s |-> now - cancel_start]
    /\ UNCHANGED << backend, inputs, ust, cancelPending, cancelReq, stormSignalled, nurseryCancelled,
                    childError, scopes, sigIdx, taskResult, results, completed,
                    cancelled, other_errors, now, launched_at, cancel_start,
                    nCancelRequested, firstFail, policy >>
    /\ UNCHANGED restVars

TrioStormSleepCancelled == StormSleepCancelled("trio")
TrioStormExit == StormExit("trio")

AnyioCancellationStorm == StormLaunch("anyio")

\* anyio.sleep(cancel_after) returns; cancel_start is read;
\* tg.cancel_scope.cancel() cancels the whole task group in one call; the
\* block ends and the launcher waits in its exit.
AnyioStormSignal ==
    /\ pc = "sleeping" /\ backend = "anyio"
    /\ ~nurseryCancelled
    /\ AsyncioLauncherMayResume
    /\ cancel_start' = now
    /\ nCancelRequested' = nCancelRequested + 1
    /\ CancelUnits(Units)
    /\ nurseryCancelled' = TRUE
    /\ pc' = "joining"
    /\ UNCHANGED << backend, inputs, ust, childError, scopes, sigIdx, taskResult,
                    results, completed, cancelled, other_errors, result, now,
                    launched_at, firstFail, policy >>
    /\ UNCHANGED restVars

AnyioStormSleepCancelled == StormSleepCancelled("anyio")
AnyioStormExit == StormExit("anyio")

\* ------------------------------------------------------ environment

\* The call is over and its run context is closed; the next call starts
\* from a fresh context.
ContextReset ==
    /\ backend' = "none"
    /\ pc' = "idle"
    /\ ust' = [u \in Units |-> "none"]
    /\ cancelPending' = [u \in Units |-> FALSE]
    /\ cancelReq' = [u \in Units |-> 0]
    /\ stormSignalled' = {}
    /\ nurseryCancelled' = FALSE
    /\ childError' = FALSE
    /\ scopes' = << >>
    /\ sigIdx' = 0
    /\ taskResult' = [u \in Units |-> None]
    /\ results' = << >>
    /\ completed' = 0
    /\ cancelled' = 0
    /\ other_errors' = 0
    /\ result' = NoResult
    /\ launched_at' = None
    /\ cancel_start' = None
    /\ nCancelRequested' = 0
    /\ firstFail' = "none"
    /\ now' = 0
    /\ UNCHANGED << inputs, policy >>

CloseContext ==
    /\ pc \in {"returned", "raised"}
    /\ ContextReset
    /\ UNCHANGED restVars

\* The monotonic clock advances while the launcher of a storm is suspended.
Tick ==
    /\ IsStorm
    /\ pc \in {"sleeping", "joining"}
    /\ now < MaxTime
    /\ now' = now + 1
    /\ UNCHANGED << backend, inputs, pc, ust, cancelPending, cancelReq, stormSignalled,
                    nurseryCancelled, childError, scopes, sigIdx, taskResult, results,
                    completed, cancelled, other_errors, result, launched_at,
                    cancel_start, nCancelRequested, firstFail, policy >>
    /\ UNCHANGED restVars

Next ==
    \/ \E u \in Units : UnitStep(u)
    \/ AsyncioSpawnMany
    \/ AsyncioSpawnManyReturn
    \/ AsyncioSpawnManyRaise
    \/ TrioSpawnMany
    \/ TrioSpawnManyExit
    \/ AnyioSpawnMany
    \/ AnyioSpawnManyExit
    \/ AsyncioCancellationStorm
    \/ AsyncioStormWake
    \/ AsyncioCancelTask
    \/ AsyncioStormReturn
    \/ TrioCancellationStorm
    \/ TrioStormWake
    \/ TrioCancelScope
    \/ TrioStormSleepCancelled
    \/ TrioStormExit
    \/ AnyioCancellationStorm
    \/ AnyioStormSignal
    \/ AnyioStormSleepCancelled
    \/ AnyioStormExit
    \/ CloseContext
    \/ Tick

Spec == Init /\ [][Next]_vars


\* ------------------------------------------------------------ properties

Finished == pc \in {"returned", "raised"}
SignalIssued == nCancelRequested > 0 /\ pc \in {"joining", "returned", "raised"}

\* C1: when spawn_many returns, the list holds exactly count results and
\* position i holds the value fn(i) returned, whatever the completion order
\* (count = 0 gives the empty list).
C1_ResultsInLaunchOrder ==
    (op = "spawn_many" /\ pc = "returned") =>
        /\ Len(results) = count
        /\ \A i \in Units : results[i + 1] = FnValue(i)

C1_Witness ==
    /\ op = "spawn_many" /\ pc = "returned" /\ backend = "trio"
    /\ count >= 2
    /\ results = [i \in 1 .. count |-> FnValue(i - 1)]

\* C2: when spawn_many raises a unit's failure, no unit it launched is still
\* running.
C2_NoDanglingUnitAtRaise ==
    (op = "spawn_many" /\ pc = "raised") => \A u \in Units : Exited(u)

\* C3: the backends apply the same error policy in spawn_many: any two
\* backends that saw a unit fail while a sibling was still running agree on
\* whether siblings were cancelled and on whether the failure reached the
\* caller while a sibling was still running.
C3_SameErrorPolicy ==
    \A b1, b2 \in Backends :
        (policy[b1].seen /\ policy[b2].seen) =>
            /\ policy[b1].cancelledSiblings = policy[b2].cancelledSiblings
            /\ policy[b1].dangling = policy[b2].dangling

\* C4: spawn_many returns normally only after every launched unit has
\* completed.
C4_ReturnAfterAllCompleted ==
    (op = "spawn_many" /\ pc = "returned") => \A u \in Units : ust[u] = "done"

C4_Witness ==
    /\ op = "spawn_many" /\ pc = "returned" /\ backend = "anyio"
    /\ count >= 2
    /\ \A u \in Units : ust[u] = "done"

\* C5: a unit of a storm that raises an error other than the cancellation
\* does not abort the storm: cancellation_storm does not raise, and the dict
\* it returns counts the failure in exceptions.
C5_StormToleratesUnitFailure ==
    IsStorm =>
        /\ pc # "raised"
        /\ pc = "returned" =>
              result.exceptions = Cardinality({u \in Units : ust[u] = "failed"})

\* C6: once the storm's signal has been issued, every launched unit that has
\* not exited has had its cancellation requested.
C6_SignalReachesEveryLiveUnit ==
    (IsStorm /\ SignalIssued) => \A u \in Units : Alive(u) => cancelReq[u] >= 1

\* C7: a storm enters CancelRequested exactly once, and no unit has its
\* cancellation requested more than once.
C7_CancelRequestedOnce ==
    IsStorm =>
        /\ nCancelRequested <= 1
        /\ \A u \in Units : cancelReq[u] <= 1
        /\ Finished => nCancelRequested = 1

\* C8: the signal is atomic with respect to the units: while the launcher is
\* in its signalling loop no unit takes a step.
C8_SignalAtomic ==
    [][pc = "signalling" =>
          /\ ust' = ust
          /\ scopes' = scopes
          /\ cancelled' = cancelled
          /\ other_errors' = other_errors]_vars

C8_Witness ==
    /\ pc = "signalling"
    /\ 0 < sigIdx
    /\ \E u \in Units : Alive(u) /\ cancelReq[u] = 0
    /\ \E u \in Units : Alive(u) /\ cancelReq[u] = 1

\* C9: no unit of a storm has its cancellation requested before cancel_after
\* has elapsed since the launch.
C9_NoCancelBeforeCancelAfter ==
    (IsStorm /\ pc # "idle") =>
        \A u \in Units : cancelReq[u] > 0 => now >= launched_at + cancel_after

\* C10: cancellation_storm returns only after every launched unit has
\* exited; with a unit that never exits it never returns.
C10_ReturnAfterSettlement ==
    (IsStorm /\ pc = "returned") =>
        /\ \A u \in Units : Exited(u)
        /\ \A u \in Units : kinds[u] # "stubborn"

C10_Witness ==
    /\ IsStorm /\ pc = "returned" /\ backend = "asyncio"
    /\ count >= 2
    /\ \E u \in Units : ust[u] = "cancelled"
    /\ result.cancelled >= 1


StormPhaseOrder == << "Running", "CancelRequested", "Draining", "Settled" >>

\* The phases the open storm has entered so far, in the order it entered
\* them: Running at the launch, CancelRequested each time cancel_start is read
\* and the signal issued, Draining in the join, Settled once the join is over.
StormPhases ==
    IF pc = "idle" THEN << >>
    ELSE IF pc = "sleeping" THEN << "Running" >>
    ELSE << "Running" >>
         \o [i \in 1 .. nCancelRequested |-> "CancelRequested"]
         \o (IF pc = "signalling" THEN << >> ELSE << "Draining" >>)
         \o (IF Finished THEN << "Settled" >> ELSE << >>)

IsPrefix(s, t) == Len(s) <= Len(t) /\ \A i \in 1 .. Len(s) : s[i] = t[i]

\* C11: a storm passes through Running, CancelRequested, Draining, Settled in
\* this order, none skipped or repeated; it ends in Settled by producing its
\* result, and the result exists only in Settled.
C11_StormPhasesInOrder ==
    IsStorm =>
        /\ IsPrefix(StormPhases, StormPhaseOrder)
        /\ Finished => (StormPhases = StormPhaseOrder /\ pc = "returned")
        /\ result # NoResult => StormPhases = StormPhaseOrder

\* C12: the result of a storm satisfies cancelled + exceptions <= task_count.
C12_CountsBoundedByTaskCount ==
    (IsStorm /\ pc = "returned") =>
        /\ result.cancelled >= 0
        /\ result.exceptions >= 0
        /\ result.cancelled + result.exceptions <= count

C12_Witness ==
    /\ IsStorm /\ pc = "returned"
    /\ count >= 2
    /\ result.cancelled >= 1
    /\ result.exceptions >= 1
    /\ result.cancelled + result.exceptions = count

C15_CountersLoseNoUpdate ==
    (IsStorm /\ Structured /\ pc # "idle") =>
        /\ cancelled = Cardinality({u \in Units : ust[u] = "cancelled"})
        /\ other_errors = Cardinality({u \in Units : ust[u] = "failed"})

C15_Witness ==
    /\ IsStorm /\ Structured
    /\ cancelled >= 2
    /\ other_errors = 0


\* ------------------------------------------- the same storm on each backend

\* What the caller of cancellation_storm observes when the call is over: the
\* returned counts, or the exception; with it, how each unit exited.
ObservedOutcome ==
    [seen       |-> TRUE,
     exits      |-> [u \in Units |-> ust[u]],
     raised     |-> pc = "raised",
     cancelled  |-> IF pc = "returned" THEN result.cancelled ELSE None,
     exceptions |-> IF pc = "returned" THEN result.exceptions ELSE None]

\* backend.run returns or raises out of a storm: the outcome is observed and
\* the context closes.
RecordOutcome ==
    /\ IsStorm /\ Finished
    /\ stormOutcome' = [stormOutcome EXCEPT ![backend] = ObservedOutcome]
    /\ ContextReset
    /\ UNCHANGED << orchVars, extraVars >>

\* The storm is run once on each backend, with the same arguments.
EquivLaunch(b) ==
    /\ ~stormOutcome[b].seen
    /\ StormLaunch(b)

EquivInit == Init /\ op = "cancellation_storm"

EquivNext ==
    \/ \E u \in Units : UnitStep(u)
    \/ EquivLaunch("asyncio")
    \/ AsyncioStormWake
    \/ AsyncioCancelTask
    \/ AsyncioStormReturn
    \/ EquivLaunch("trio")
    \/ TrioStormWake
    \/ TrioCancelScope
    \/ TrioStormSleepCancelled
    \/ TrioStormExit
    \/ EquivLaunch("anyio")
    \/ AnyioStormSignal
    \/ AnyioStormSleepCancelled
    \/ AnyioStormExit
    \/ RecordOutcome
    \/ Tick

EquivSpec == EquivInit /\ [][EquivNext]_vars

\* C16: for the same task_count, cancel_after and per-unit behaviour (each
\* unit exits the same way), the backends that ran the storm report the same
\* outcome: the same cancelled and exceptions counts, or all raise.
C16_SameStormOutcome ==
    \A a, b \in Backends :
        (/\ stormOutcome[a].seen
         /\ stormOutcome[b].seen
         /\ stormOutcome[a].exits = stormOutcome[b].exits)
        => /\ stormOutcome[a].raised = stormOutcome[b].raised
           /\ stormOutcome[a].cancelled = stormOutcome[b].cancelled
           /\ stormOutcome[a].exceptions = stormOutcome[b].exceptions


\* ------------------------------------------------------------- termination

\* The event loop always runs a task that is ready: a step that can be taken
\* is eventually taken.
FairSpec == Spec /\ WF_vars(Next)

\* Every unit suspends in a sleep and exits when it observes a cancellation.
CooperativeUnits == \A u \in Units : kinds[u] \in {"loop", "ok"}

\* C17: under fair scheduling a storm whose units all reach a suspension
\* point and exit on observing cancellation eventually settles and returns,
\* on every backend.
C17_StormTerminates ==
    (IsStorm /\ pc = "sleeping" /\ CooperativeUnits) ~> (pc = "returned")


\* ---------------------------------------------------------- the orchestrator

Scenarios == {"task_spawn", "io_bound", "cancellation"}

\* A selection given on the command line: a non-empty list of distinct names.
Selections(S) ==
    {sel \in UNION {[1 .. n -> S] : n \in 1 .. Cardinality(S)} :
        \A i, j \in DOMAIN sel : i # j => sel[i] # sel[j]}

\* build_params: one parameter object per scenario, built once from the
\* arguments.
BuildParams(n) == [sc \in Scenarios |-> [params_cls |-> sc, task_count |-> n]]

\* asdict(params): a copy of the parameter object's fields.
AsDict(p) == [params_cls |-> p.params_cls, task_count |-> p.task_count]

\* A numbering of the repetitions that starts at zero.
RepNumberZeroBased(r) == r

\* entry["rep"] = rep + 1
RepNumber(r) == r + 1

\* A context that stays open after backend.run is over.
ContextLeftOpen(n) == n

\* backend.run is over (returned or raised): its event loop is closed.
ContextClosed(n) == n - 1

\* An orchestrator that goes on with the loop after a failed invocation.
MainAfterRaiseContinues == "loop"

\* An exception out of run_benchmark is not caught in main: main ends.
MainAfterRaise == "aborted"

\* A name that is neither a backend nor a scenario.
UnknownName == "unknown"

\* An argument parser without choices: every name is let through.
ArgsUnchecked == TRUE

\* choices=list(BACKENDS.keys()) and choices=list(SCENARIOS.keys()): every
\* value of --libraries and of --benchmarks is one of the known names.
ArgsValid ==
    /\ \A i \in DOMAIN libraries : libraries[i] \in Backends
    /\ \A j \in DOMAIN benchmarks : benchmarks[j] \in Scenarios

OrchInit ==
    /\ BackendInit
    /\ op = "spawn_many" /\ count = 0
    /\ stormOutcome = [b \in Backends |-> NoOutcome]
    /\ ExtraIdle
    /\ libraries \in Selections(Backends \cup {UnknownName})
    /\ benchmarks \in Selections(Scenarios \cup {UnknownName})
    /\ repetitions \in 1 .. MaxReps
    /\ params \in {BuildParams(n) : n \in 0 .. MaxUnits}
    /\ mpc = "start"
    /\ li = 1 /\ si = 1 /\ rep = 0
    /\ entries = << >>
    /\ returnedEntries = << >>
    /\ openContexts = 0
    /\ nStarted = 0
    /\ failedAt = None
    /\ documents = 0

\* parse_args: a value outside the choices ends the process (parser.error,
\* SystemExit); otherwise main goes on to the loops.
ParseArgs ==
    /\ mpc = "start"
    /\ mpc' = IF ArgsValid THEN "loop" ELSE "rejected"
    /\ UNCHANGED << libraries, benchmarks, repetitions, params, li, si, rep,
                    entries, returnedEntries, openContexts, nStarted, failedAt,
                    documents >>
    /\ UNCHANGED << backendVars, stormOutcome, extraVars >>

\* The dictionary run_benchmark returns for the combination the loops are at.
ReturnedEntry ==
    [library  |-> libraries[li],
     scenario |-> benchmarks[si],
     params   |-> AsDict(params[benchmarks[si]])]

\* main writes entry["rep"] into the dictionary it got from run_benchmark and
\* appends that same dictionary to entries.
EntryAfterMain(e) ==
    [library  |-> e.library,
     scenario |-> e.scenario,
     params   |-> e.params,
     rep      |-> RepNumber(rep)]

\* run_benchmark calls backend.run for the combination the loops are at.
RunBenchmarkOpen ==
    /\ mpc = "loop" /\ li <= Len(libraries)
    /\ mpc' = "in_run"
    /\ openContexts' = openContexts + 1
    /\ nStarted' = nStarted + 1
    /\ UNCHANGED << libraries, benchmarks, repetitions, params, li, si, rep,
                    entries, returnedEntries, failedAt, documents >>
    /\ UNCHANGED << backendVars, stormOutcome, extraVars >>

\* backend.run returns: the entry is built, numbered and appended, and the
\* three nested loops move on (innermost first).
RunBenchmarkReturn ==
    /\ mpc = "in_run"
    /\ mpc' = "loop"
    /\ openContexts' = ContextClosed(openContexts)
    /\ returnedEntries' = Append(returnedEntries, ReturnedEntry)
    /\ entries' = Append(entries, EntryAfterMain(ReturnedEntry))
    /\ IF rep + 1 < repetitions
       THEN rep' = rep + 1 /\ UNCHANGED << li, si >>
       ELSE /\ rep' = 0
            /\ IF si < Len(benchmarks)
               THEN si' = si + 1 /\ UNCHANGED li
               ELSE si' = 1 /\ li' = li + 1
    /\ UNCHANGED << libraries, benchmarks, repetitions, params, nStarted,
                    failedAt, documents >>
    /\ UNCHANGED << backendVars, stormOutcome, extraVars >>

\* backend.run raises: the exception leaves run_benchmark and main.
RunBenchmarkRaise ==
    /\ mpc = "in_run"
    /\ mpc' = MainAfterRaise
    /\ openContexts' = ContextClosed(openContexts)
    /\ failedAt' = nStarted
    /\ UNCHANGED << libraries, benchmarks, repetitions, params, li, si, rep,
                    entries, returnedEntries, nStarted, documents >>
    /\ UNCHANGED << backendVars, stormOutcome, extraVars >>

\* A main that may leave the loops and write after any combination.
LoopsOverAnytime == li >= 1

\* The outermost for loop has run through every selected library.
LoopsOver == li > Len(libraries)

\* The loops are over: the payload is built and written to the output file.
WriteDocument ==
    /\ mpc = "loop" /\ LoopsOver
    /\ mpc' = "done"
    /\ documents' = documents + 1
    /\ UNCHANGED << libraries, benchmarks, repetitions, params, li, si, rep,
                    entries, returnedEntries, openContexts, nStarted, failedAt >>
    /\ UNCHANGED << backendVars, stormOutcome, extraVars >>

OrchNext ==
    \/ ParseArgs
    \/ RunBenchmarkOpen
    \/ RunBenchmarkReturn
    \/ RunBenchmarkRaise
    \/ WriteDocument

OrchSpec == OrchInit /\ [][OrchNext]_vars

\* The number of combinations of the run.
MatrixSize == Len(libraries) * Len(benchmarks) * repetitions

\* C18: the matrix is executed strictly sequentially: at most one backend.run
\* context is open, and it is closed before the next combination starts.
C18_OneContextAtATime ==
    /\ openContexts \in {0, 1}
    /\ openContexts = 1 <=> mpc = "in_run"

C18_Witness ==
    /\ nStarted >= 2
    /\ openContexts = 1

\* C19: a completed run has exactly |L| x |S| x R entries, one per triple,
\* library-major, then scenario, then repetition; rep runs 1 .. R within each
\* (library, scenario) pair, and the entries of a scenario carry the same
\* params snapshot.
C19_EntriesInMatrixOrder ==
    mpc = "done" =>
        /\ Len(entries) = MatrixSize
        /\ \A i \in 1 .. Len(libraries), j \in 1 .. Len(benchmarks), r \in 1 .. repetitions :
              LET e == entries[((i - 1) * Len(benchmarks) + (j - 1)) * repetitions + r]
              IN  /\ e.library = libraries[i]
                  /\ e.scenario = benchmarks[j]
                  /\ e.rep = r
                  /\ e.params = AsDict(params[benchmarks[j]])
        /\ \A k1, k2 \in 1 .. Len(entries) :
              entries[k1].scenario = entries[k2].scenario
                  => entries[k1].params = entries[k2].params

C19_Witness ==
    /\ mpc = "done"
    /\ Len(libraries) >= 2 /\ Len(benchmarks) >= 2 /\ repetitions >= 2
    /\ Len(entries) = MatrixSize

\* C20: when an invocation fails the run aborts at once: no later combination
\* is started.
C20_AbortOnFailure ==
    failedAt # None =>
        /\ nStarted = failedAt
        /\ Len(entries) = failedAt - 1

C20_Witness ==
    /\ failedAt # None
    /\ failedAt >= 2
    /\ failedAt < MatrixSize
    /\ mpc = "aborted"


\* C21: the result document is written at most once per run and only after
\* every combination of the matrix has completed; a run that aborted on a
\* failure has written no document.
C21_DocumentWrittenOnceAtEnd ==
    /\ documents \in {0, 1}
    /\ documents = 1 =>
          /\ nStarted = MatrixSize
          /\ Len(entries) = MatrixSize
          /\ openContexts = 0
          /\ failedAt = None
    /\ failedAt # None => documents = 0

C21_Witness ==
    /\ documents = 1
    /\ MatrixSize >= 4
    /\ Len(entries) = MatrixSize


\* C22: no entity is modified after the call that produced it is over: the
\* parameter objects stay as build_params built them, and every result entry
\* stays as run_benchmark returned it.
C22_NoMutationAfterProduction ==
    mpc \in {"loop", "in_run", "done", "aborted"} =>
        /\ params \in {BuildParams(n) : n \in 0 .. MaxUnits}
        /\ \A k \in 1 .. Len(entries) :
              AsDict(params[entries[k].scenario]) = entries[k].params
        /\ Len(entries) = Len(returnedEntries)
        /\ \A k \in 1 .. Len(entries) : entries[k] = returnedEntries[k]


\* ------------------------------------------------- the I/O-bound scenario

Workers == 0 .. (concurrency - 1)

\* A generator that is not seeded again: it goes on from where it is.
RngNotReseeded(sd) == rng

\* random.Random(seed): the generator's state is a function of the seed.
RngSeeded(sd) == (sd * 7 + 1) % 16

\* One step of the generator (a full-period congruential generator stands
\* for the Mersenne twister).
RngNext(x) == (x * 5 + 3) % 16

\* rng.expovariate(1 / mean_delay_ms) / 1000: a positive delay computed from
\* the generator's output and the mean.
Expovariate(x, m) == (x + 1) * m

IoInit ==
    /\ BackendInit
    /\ op = "spawn_many" /\ count = 0
    /\ stormOutcome = [b \in Backends |-> NoOutcome]
    /\ OrchIdle
    /\ UtilIdle
    /\ runResult = NoRun
    /\ TaskIdle
    /\ ScenIdle
    /\ seed \in 0 .. MaxSeed
    /\ concurrency \in 0 .. MaxUnits
    /\ ops_per_worker \in 0 .. MaxOps
    /\ mean_delay_ms \in 1 .. MaxMeanDelay
    /\ ioBackend = "none"
    /\ ioRunNo = 0
    /\ rng = 0
    /\ wst = [w \in 0 .. (concurrency - 1) |-> "none"]
    /\ opsDrawn = [w \in 0 .. (concurrency - 1) |-> 0]
    /\ delayLog = [r \in 1 .. 2 |-> << >>]
    /\ op_latencies = [w \in 0 .. (concurrency - 1) |-> 0]
    /\ ioMetrics = NoIoMetrics
    /\ callDelays = [r \in 1 .. 2 |-> [w \in 0 .. (concurrency - 1) |-> << >>]]

\* run_io_bound is entered through backend.run: the generator is seeded and
\* spawn_many creates the workers.
RunIoBound(b) ==
    /\ ioBackend = "none" /\ ioRunNo < 2
    /\ ioBackend' = b
    /\ ioRunNo' = ioRunNo + 1
    /\ rng' = RngSeeded(seed)
    /\ wst' = [w \in Workers |-> "created"]
    /\ opsDrawn' = [w \in Workers |-> 0]
    /\ op_latencies' = [w \in Workers |-> 0]
    /\ ioMetrics' = NoIoMetrics
    /\ UNCHANGED << seed, concurrency, ops_per_worker, mean_delay_ms, delayLog,
                    callDelays >>
    /\ UNCHANGED ioRest

\* asyncio, and anyio on its asyncio backend, start the created workers in
\* creation order, trio in any order; a worker that sleeps resumes only after
\* every worker has started.
WorkerMayRun(w) ==
    IF wst[w] = "created"
    THEN ioBackend \in {"asyncio", "anyio"}
            => \A v \in Workers : v < w => wst[v] # "created"
    ELSE wst[w] = "sleeping" /\ \A v \in Workers : wst[v] # "created"

\* The delay the next draw from the shared generator gives.
NextDelay == Expovariate(RngNext(rng), mean_delay_ms)

\* One run of worker w up to its next await: back from a sleep it appends the
\* latency; then the loop ends, or the next delay is drawn from the shared
\* generator and the worker sleeps.
WorkerRuns(w) ==
    /\ ioBackend # "none"
    /\ WorkerMayRun(w)
    /\ op_latencies' = IF wst[w] = "sleeping"
                       THEN [op_latencies EXCEPT ![w] = @ + 1] ELSE op_latencies
    /\ IF opsDrawn[w] < ops_per_worker
       THEN /\ rng' = RngNext(rng)
            /\ delayLog' = [delayLog EXCEPT
                  ![ioRunNo] = Append(@, Expovariate(RngNext(rng), mean_delay_ms))]
            /\ opsDrawn' = [opsDrawn EXCEPT ![w] = @ + 1]
            /\ wst' = [wst EXCEPT ![w] = "sleeping"]
       ELSE /\ wst' = [wst EXCEPT ![w] = "done"]
            /\ UNCHANGED << rng, delayLog, opsDrawn >>
    /\ UNCHANGED << seed, concurrency, ops_per_worker, mean_delay_ms, ioBackend,
                    ioRunNo, ioMetrics >>
    /\ UNCHANGED ioRest

WorkerStep(w) ==
    /\ WorkerRuns(w)
    /\ UNCHANGED callDelays

\* A spawn_many that returns with the first worker done.
IoSpawnManyFirstDone == \E w \in Workers : wst[w] = "done"

\* spawn_many returns once every worker is done.
IoSpawnManyDone == \A w \in Workers : wst[w] = "done"

RECURSIVE SumOver(_, _)
SumOver(f, S) ==
    IF S = {} THEN 0
    ELSE LET x == CHOOSE y \in S : TRUE IN f[x] + SumOver(f, S \ {x})

\* spawn_many has returned; run_io_bound computes its metrics from the list
\* of latencies and returns, and the context closes.
IoBoundReturn ==
    /\ ioBackend # "none"
    /\ IoSpawnManyDone
    /\ ioMetrics' = [seen     |-> TRUE,
                     workers  |-> concurrency,
                     ops      |-> concurrency * ops_per_worker,
                     recorded |-> SumOver(op_latencies, Workers)]
    /\ ioBackend' = "none"
    /\ wst' = [w \in Workers |-> "none"]
    /\ UNCHANGED << seed, concurrency, ops_per_worker, mean_delay_ms, ioRunNo,
                    rng, opsDrawn, delayLog, op_latencies, callDelays >>
    /\ UNCHANGED ioRest

IoNext ==
    \/ \E b \in Backends : RunIoBound(b)
    \/ \E w \in Workers : WorkerStep(w)
    \/ IoBoundReturn

IoSpec == IoInit /\ [][IoNext]_vars

\* C23: two runs of the I/O-bound scenario with the same parameters draw the
\* same delays: the k-th delay of one run is the k-th delay of the other,
\* whichever backends run them, and two finished runs drew equally many.
C23_SameDelaySequence ==
    ioRunNo = 2 =>
        /\ \A k \in 1 .. Len(delayLog[2]) :
              /\ k <= Len(delayLog[1])
              /\ delayLog[2][k] = delayLog[1][k]
        /\ ioBackend = "none" => delayLog[2] = delayLog[1]

C23_Witness ==
    /\ ioRunNo = 2
    /\ ioBackend = "none"
    /\ concurrency >= 2
    /\ Len(delayLog[2]) >= 4


\* ------------------------------------------------- the statistics helpers

\* The percentiles the checks ask for: those the scenarios use (50, 95, 99),
\* the ends of the range, and ranks that fall on and between sample points.
Pcts == {0, 1, 25, 50, 75, 95, 99, 100}

Returned(n, d) == [done |-> TRUE, raised |-> FALSE, num |-> n, den |-> d]

Raised == [done |-> TRUE, raised |-> TRUE, num |-> 0, den |-> 1]

\* vals.sort()
Sorted(vals) == SortSeq(vals, LAMBDA a, b : a < b)

RECURSIVE Sum(_)
Sum(vals) == IF vals = << >> THEN 0 ELSE Head(vals) + Sum(Tail(vals))

\* The body of percentile after the sort, in exact arithmetic with the rank
\* k held as k100 = 100 * k: f = int(k), c = min(f + 1, len - 1), the early
\* return when f = c, else d0 + d1.  The value is num / 100.
Interpolate(vals, p) ==
    LET k100 == (Len(vals) - 1) * p
        f    == k100 \div 100
        c    == IF f + 1 < Len(vals) - 1 THEN f + 1 ELSE Len(vals) - 1
    IN  IF f = c
        THEN Returned(vals[f + 1] * 100, 100)
        ELSE Returned(vals[f + 1] * (c * 100 - k100) + vals[c + 1] * (k100 - f * 100), 100)

\* A percentile that takes the lower bracketing sample without interpolating.
PercentileLowerRank(vals, p) ==
    IF vals = << >> THEN Returned(0, 1)
    ELSE Returned(Sorted(vals)[((Len(vals) - 1) * p) \div 100 + 1] * 100, 100)

\* percentile(values, pct)
Percentile(vals, p) ==
    IF vals = << >> THEN Returned(0, 1) ELSE Interpolate(Sorted(vals), p)

\* statistics.mean(vals): raises StatisticsError on an empty sample.
StatisticsMean(vals) ==
    IF vals = << >> THEN Raised ELSE Returned(Sum(vals), Len(vals))

\* A mean without the guard for the empty sample.
MeanUnguarded(vals) == StatisticsMean(vals)

\* mean(values)
Mean(vals) == IF vals # << >> THEN StatisticsMean(vals) ELSE Returned(0, 1)

UtilInit ==
    /\ BackendInit
    /\ op = "spawn_many" /\ count = 0
    /\ stormOutcome = [b \in Backends |-> NoOutcome]
    /\ OrchIdle
    /\ IoIdle
    /\ runResult = NoRun
    /\ TaskIdle
    /\ ScenIdle
    /\ values \in UNION {[1 .. n -> 0 .. MaxValue] : n \in 0 .. MaxLen}
    /\ pct \in Pcts
    /\ pctOut = NoOut
    /\ meanOut = NoOut
    /\ floatOut = NoFloat

CallPercentile ==
    /\ ~pctOut.done
    /\ pctOut' = Percentile(values, pct)
    /\ UNCHANGED << values, pct, meanOut, floatOut >>
    /\ UNCHANGED utilRest

CallMean ==
    /\ ~meanOut.done
    /\ meanOut' = Mean(values)
    /\ UNCHANGED << values, pct, pctOut, floatOut >>
    /\ UNCHANGED utilRest

UtilNext == CallPercentile \/ CallMean

UtilSpec == UtilInit /\ [][UtilNext]_vars

\* The linear-interpolation reference, times 100: with the sample sorted and
\* k = (n - 1) * pct / 100, sorted[floor k] + (k - floor k) * (sorted[ceil k]
\* - sorted[floor k]).
Reference100(vals, p) ==
    LET srt  == Sorted(vals)
        k100 == (Len(vals) - 1) * p
        fl   == k100 \div 100
        ce   == IF k100 % 100 = 0 THEN fl ELSE fl + 1
    IN  100 * srt[fl + 1] + (k100 - 100 * fl) * (srt[ce + 1] - srt[fl + 1])

C25_EmptySampleGivesZero ==
    values = << >> =>
        /\ pctOut.done => (~pctOut.raised /\ pctOut.num = 0)
        /\ meanOut.done => (~meanOut.raised /\ meanOut.num = 0)

C25_Witness ==
    /\ values = << >>
    /\ pct = 95
    /\ pctOut.done /\ meanOut.done
    /\ pctOut.num = 0 /\ meanOut.num = 0


C27_SleepSuspendsOnlyCaller ==
    (op = "spawn_many" /\ pc = "joining" /\ ~nurseryCancelled) =>
        /\ \A u \in Units : ust[u] = "created" => ENABLED UnitStep(u)
        /\ AllStarted => \A u \in Units : ust[u] = "suspended" => ENABLED UnitStep(u)

\* All count units are suspended in sleep at the same time.
C27_Witness ==
    /\ op = "spawn_many" /\ pc = "joining"
    /\ count >= 2
    /\ \A u \in Units : ust[u] = "suspended"


\* ------------------------------------------------------------- backend.run

\* A run that returns as soon as the entrypoint is over and leaves the tasks
\* still in its loop as they are.
RunLeavesTasks(st) == st

\* What backend.run leaves of the units when it returns or raises:
\* asyncio.run cancels the tasks still in the loop and waits for them before
\* it closes the loop; trio.run and anyio.run end only with every child of
\* the entrypoint's nurseries / task groups exited.
RunTeardown(st) ==
    [u \in DOMAIN st |-> IF st[u] \in {"created", "suspended"} THEN "cancelled" ELSE st[u]]

\* return asyncio.run(...) / trio.run(...) / anyio.run(...): the value of the
\* entrypoint is passed on as it is.
RunReturns(v) == v

\* backend.run is over: the caller has its value or its exception.
RunClose ==
    /\ Finished
    /\ runResult' = [seen         |-> TRUE,
                     raised       |-> pc = "raised",
                     results      |-> RunReturns(results),
                     result       |-> RunReturns(result),
                     entryResults |-> results,
                     entryResult  |-> result,
                     units        |-> RunTeardown(ust)]
    /\ ContextReset
    /\ UNCHANGED << stormOutcome, orchVars, ioVars, utilVars, taskVars, scenVars >>

\* One backend.run per behaviour: a context is opened for one entrypoint.
RunInit == Init

RunNext ==
    \/ \E u \in Units : UnitStep(u)
    \/ ~runResult.seen /\ AsyncioSpawnMany
    \/ AsyncioSpawnManyReturn
    \/ AsyncioSpawnManyRaise
    \/ ~runResult.seen /\ TrioSpawnMany
    \/ TrioSpawnManyExit
    \/ ~runResult.seen /\ AnyioSpawnMany
    \/ AnyioSpawnManyExit
    \/ ~runResult.seen /\ AsyncioCancellationStorm
    \/ AsyncioStormWake
    \/ AsyncioCancelTask
    \/ AsyncioStormReturn
    \/ ~runResult.seen /\ TrioCancellationStorm
    \/ TrioStormWake
    \/ TrioCancelScope
    \/ TrioStormSleepCancelled
    \/ TrioStormExit
    \/ ~runResult.seen /\ AnyioCancellationStorm
    \/ AnyioStormSignal
    \/ AnyioStormSleepCancelled
    \/ AnyioStormExit
    \/ RunClose
    \/ Tick

RunSpec == RunInit /\ [][RunNext]_vars

\* C28: run(entrypoint) executes one top-level computation in a context
\* opened for the call and returns the value that computation returned; when
\* run is over no unit created inside the context is still alive.
C28_RunReturnsEntrypointValue ==
    /\ backend = "none" <=> pc = "idle"
    /\ runResult.seen =>
          /\ backend = "none"
          /\ \A u \in DOMAIN runResult.units :
                runResult.units[u] \notin {"created", "suspended"}
          /\ ~runResult.raised =>
                /\ runResult.results = runResult.entryResults
                /\ runResult.result = runResult.entryResult

\* asyncio.run is over after spawn_many raised with a sibling still running.
C28_Witness ==
    /\ runResult.seen
    /\ runResult.raised
    /\ \E u \in DOMAIN runResult.units : runResult.units[u] = "cancelled"
    /\ \E u \in DOMAIN runResult.units : runResult.units[u] = "failed"
    /\ op = "spawn_many"


\* C29: the settle_s window brackets the whole teardown: cancel_start is read
\* after cancel_after has elapsed and before any unit is signalled, and the
\* end of the window is read, and settle_s computed from the two readings,
\* only after the last unit has exited.
C29_SettleWindowBracketsTeardown ==
    [][ /\ (cancel_start' # cancel_start /\ cancel_start' # None) =>
              /\ IsStorm
              /\ now >= launched_at + cancel_after
              /\ cancel_start' = now
              /\ stormSignalled = {}
              /\ \A u \in Units : cancelReq[u] = 0
        /\ (result' # result /\ result' # NoResult) =>
              /\ AllExited
              /\ cancel_start # None
              /\ result'.settle_s = now - cancel_start
              /\ now >= cancel_start
      ]_vars

C29_Witness ==
    /\ IsStorm /\ pc = "returned"
    /\ count >= 2
    /\ stormSignalled = Units
    /\ result.settle_s >= 1


\* C30: a --benchmarks or --libraries value outside the known names is
\* rejected at startup: the process ends before any backend.run is invoked
\* and before any result entry exists.
C30_InvalidSelectionRejected ==
    (\/ \E i \in DOMAIN libraries : libraries[i] \notin Backends
     \/ \E j \in DOMAIN benchmarks : benchmarks[j] \notin Scenarios) =>
        /\ mpc \in {"start", "rejected"}
        /\ nStarted = 0
        /\ openContexts = 0
        /\ entries = << >>
        /\ documents = 0

\* Rejected although the first selected library is a known one.
C30_Witness ==
    /\ mpc = "rejected"
    /\ Len(libraries) >= 2
    /\ libraries[1] \in Backends
    /\ libraries[2] = UnknownName
    /\ \A j \in DOMAIN benchmarks : benchmarks[j] \in Scenarios


\* C31: in a storm all task_count units are launched before the launcher
\* waits for cancel_after and so before the signal; the set of launched units
\* is the same from then on.
C31_AllLaunchedBeforeSignal ==
    (IsStorm /\ pc # "idle") =>
        /\ \A u \in Units : ust[u] # "none"
        /\ Cardinality({u \in Units : ust[u] # "none"}) = count

\* The signal has been issued while a launched unit has not yet run.
C31_Witness ==
    /\ IsStorm /\ backend = "trio"
    /\ nCancelRequested = 1
    /\ count >= 2
    /\ \A u \in Units : ust[u] = "created"


\* C32: when run_io_bound computes its metrics, concurrency x ops_per_worker
\* latencies have been recorded, ops_per_worker by each worker, which is the
\* reported ops value, under every interleaving of the workers.
C32_AllLatenciesRecorded ==
    ioMetrics.seen =>
        /\ ioMetrics.recorded = concurrency * ops_per_worker
        /\ ioMetrics.recorded = ioMetrics.ops
        /\ \A w \in Workers : op_latencies[w] = ops_per_worker

C32_Witness ==
    /\ ioMetrics.seen
    /\ concurrency >= 2 /\ ops_per_worker >= 2
    /\ ioMetrics.recorded = 4
    /\ ioBackend = "none"


\* ------------------------------------- the I/O-bound scenario, call by call

\* WorkerStep, with the delay of each call noted against its worker.
ObservedWorkerStep(w) ==
    /\ WorkerRuns(w)
    /\ callDelays' = IF opsDrawn[w] < ops_per_worker
                     THEN [callDelays EXCEPT ![ioRunNo][w] = Append(@, NextDelay)]
                     ELSE callDelays

IoCallNext ==
    \/ \E b \in Backends : RunIoBound(b)
    \/ \E w \in Workers : ObservedWorkerStep(w)
    \/ IoBoundReturn

IoCallSpec == IoInit /\ [][IoCallNext]_vars

\* C35: the delay of call j of worker w depends on the params only: two runs
\* with the same params give every (w, j) the same delay, whatever the order
\* in which the workers are started and resumed.
C35_SameDelayPerCall ==
    ioRunNo = 2 =>
        \A w \in Workers : \A j \in 1 .. Len(callDelays[2][w]) :
            j <= Len(callDelays[1][w]) => callDelays[2][w][j] = callDelays[1][w][j]


\* ------------------------------------------------- the task-spawn scenario

TaskUnits == 0 .. (task_count - 1)

TaskInit ==
    /\ BackendInit
    /\ op = "spawn_many" /\ count = 0
    /\ stormOutcome = [b \in Backends |-> NoOutcome]
    /\ OrchIdle
    /\ IoIdle
    /\ UtilIdle
    /\ runResult = NoRun
    /\ ScenIdle
    /\ tsBackend = "none"
    /\ task_count \in 0 .. MaxUnits
    /\ payload_sleep \in 0 .. MaxTime
    /\ tst = [u \in 0 .. (task_count - 1) |-> "none"]
    /\ sleepLog = [u \in 0 .. (task_count - 1) |-> << >>]
    /\ latencies = [u \in 0 .. (task_count - 1) |-> 0]
    /\ tsMetrics = NoTsMetrics

\* run_task_spawn is entered through backend.run: spawn_many creates the
\* units.
RunTaskSpawn(b) ==
    /\ tsBackend = "none" /\ ~tsMetrics.seen
    /\ tsBackend' = b
    /\ tst' = [u \in TaskUnits |-> "created"]
    /\ UNCHANGED << task_count, payload_sleep, sleepLog, latencies, tsMetrics >>
    /\ UNCHANGED taskRest

\* asyncio, and anyio on its asyncio backend, start the created units in
\* creation order, trio in any order; a unit that sleeps resumes only after
\* every unit has started.
TaskUnitMayRun(u) ==
    IF tst[u] = "created"
    THEN tsBackend \in {"asyncio", "anyio"}
            => \A v \in TaskUnits : v < u => tst[v] # "created"
    ELSE tst[u] = "sleeping" /\ \A v \in TaskUnits : tst[v] # "created"

\* One run of run_one(u) up to its next await: it calls _worker, which awaits
\* backend.sleep(payload_sleep); back from the sleep it appends its latency
\* and returns.
TaskUnitStep(u) ==
    /\ tsBackend # "none"
    /\ TaskUnitMayRun(u)
    /\ IF tst[u] = "created"
       THEN /\ sleepLog' = [sleepLog EXCEPT ![u] = Append(@, payload_sleep)]
            /\ tst' = [tst EXCEPT ![u] = "sleeping"]
            /\ UNCHANGED latencies
       ELSE /\ latencies' = [latencies EXCEPT ![u] = @ + 1]
            /\ tst' = [tst EXCEPT ![u] = "done"]
            /\ UNCHANGED sleepLog
    /\ UNCHANGED << tsBackend, task_count, payload_sleep, tsMetrics >>
    /\ UNCHANGED taskRest

\* A spawn_many that returns with the first unit done.
TaskSpawnManyFirstDone == \E u \in TaskUnits : tst[u] = "done"

\* spawn_many returns once every unit is done.
TaskSpawnManyDone == \A u \in TaskUnits : tst[u] = "done"

\* spawn_many has returned; run_task_spawn computes the percentiles of the
\* list of latencies and returns, and the context closes.
TaskSpawnReturn ==
    /\ tsBackend # "none"
    /\ TaskSpawnManyDone
    /\ tsMetrics' = [seen     |-> TRUE,
                     tasks    |-> task_count,
                     recorded |-> SumOver(latencies, TaskUnits)]
    /\ tsBackend' = "none"
    /\ UNCHANGED << task_count, payload_sleep, tst, sleepLog, latencies >>
    /\ UNCHANGED taskRest

TaskNext ==
    \/ \E b \in Backends : RunTaskSpawn(b)
    \/ \E u \in TaskUnits : TaskUnitStep(u)
    \/ TaskSpawnReturn

TaskSpec == TaskInit /\ [][TaskNext]_vars

\* C33: when run_task_spawn computes its percentiles, task_count latencies
\* have been recorded, one per unit, and each unit has called sleep once,
\* with payload_sleep, under every completion order.
C33_OneLatencyPerUnit ==
    tsMetrics.seen =>
        /\ tsMetrics.recorded = task_count
        /\ tsMetrics.tasks = task_count
        /\ \A u \in TaskUnits :
              /\ latencies[u] = 1
              /\ sleepLog[u] = << payload_sleep >>

C33_Witness ==
    /\ tsMetrics.seen
    /\ task_count >= 2
    /\ payload_sleep >= 1
    /\ tsMetrics.recorded = task_count


\* ------------------------------------------- every unit classified once

\* C36: in every settled storm, on any backend, each launched unit is
\* classified exactly once: cancelled + exceptions + the number of units that
\* completed normally equals task_count.
C36_EachUnitClassifiedOnce ==
    (IsStorm /\ pc = "returned") =>
        /\ \A u \in Units : ust[u] \in {"done", "cancelled", "failed"}
        /\ result.cancelled + result.exceptions
              + Cardinality({u \in Units : ust[u] = "done"}) = count

C36_Witness ==
    /\ IsStorm /\ pc = "returned" /\ backend = "anyio"
    /\ count >= 2
    /\ result.cancelled >= 1
    /\ \E u \in Units : ust[u] = "done"


\* ------------------------------------------- percentile in float arithmetic

\* Base of the digits a natural number is held in.
Base == 32768

\* Bits per digit: Base = 2^DigitBits.
DigitBits == 15

\* A natural number as its digits to the base Base, least significant first,
\* without high zeros: 0 is << >>.
RECURSIVE Big(_)
Big(n) == IF n = 0 THEN << >> ELSE << n % Base >> \o Big(n \div Base)

RECURSIVE Trim(_)
Trim(a) ==
    IF a = << >> THEN a
    ELSE IF a[Len(a)] = 0 THEN Trim(SubSeq(a, 1, Len(a) - 1)) ELSE a

Digit(a, i) == IF i <= Len(a) THEN a[i] ELSE 0

RECURSIVE AddFrom(_, _, _, _)
AddFrom(a, b, i, carry) ==
    IF i > Len(a) /\ i > Len(b)
    THEN (IF carry = 1 THEN << 1 >> ELSE << >>)
    ELSE LET t == Digit(a, i) + Digit(b, i) + carry
         IN  << t % Base >> \o AddFrom(a, b, i + 1, t \div Base)

BigAdd(a, b) == AddFrom(a, b, 1, 0)

RECURSIVE SubFrom(_, _, _, _)
SubFrom(a, b, i, borrow) ==
    IF i > Len(a) THEN << >>
    ELSE LET d == Digit(a, i) - Digit(b, i) - borrow
         IN  << (d + Base) % Base >> \o SubFrom(a, b, i + 1, IF d < 0 THEN 1 ELSE 0)

\* a - b for a >= b
BigSub(a, b) == Trim(SubFrom(a, b, 1, 0))

RECURSIVE TimesFrom(_, _, _, _)
TimesFrom(a, n, i, carry) ==
    IF i > Len(a) THEN Big(carry)
    ELSE LET t == a[i] * n + carry
         IN  << t % Base >> \o TimesFrom(a, n, i + 1, t \div Base)

\* a * n for 0 <= n <= Base
BigTimes(a, n) == Trim(TimesFrom(a, n, 1, 0))

\* a * 2^n
ShiftLeft(a, n) ==
    IF a = << >> THEN a
    ELSE [i \in 1 .. (n \div DigitBits) |-> 0] \o BigTimes(a, 2 ^ (n % DigitBits))

\* a \div 2^n
ShiftRight(a, n) ==
    LET q == n \div DigitBits
        r == n % DigitBits
    IN  IF q >= Len(a) THEN << >>
        ELSE Trim([i \in 1 .. (Len(a) - q) |->
                     (a[i + q] \div 2 ^ r)
                        + (Digit(a, i + q + 1) % 2 ^ r) * 2 ^ (DigitBits - r)])

\* Number of binary digits of a
BitLen(a) ==
    IF a = << >> THEN 0
    ELSE (Len(a) - 1) * DigitBits
            + (CHOOSE j \in 1 .. DigitBits :
                  2 ^ (j - 1) <= a[Len(a)] /\ a[Len(a)] < 2 ^ j)

\* The i-th binary digit of a, the least significant being the first
BitAt(a, i) ==
    (Digit(a, (i - 1) \div DigitBits + 1) \div 2 ^ ((i - 1) % DigitBits)) % 2

\* The n low binary digits of a are zero
LowBitsZero(a, n) ==
    /\ \A i \in 1 .. (n \div DigitBits) : Digit(a, i) = 0
    /\ Digit(a, n \div DigitBits + 1) % 2 ^ (n % DigitBits) = 0

RECURSIVE BigLessFrom(_, _, _)
BigLessFrom(a, b, i) ==
    IF i = 0 THEN FALSE
    ELSE IF a[i] # b[i] THEN a[i] < b[i] ELSE BigLessFrom(a, b, i - 1)

BigLess(a, b) ==
    IF Len(a) # Len(b) THEN Len(a) < Len(b) ELSE BigLessFrom(a, b, Len(a))

\* a as an int, for a < 2^30
ToNat(a) == Digit(a, 1) + Base * Digit(a, 2)

\* Long division of a by the int q, 0 < q < Base, from digit i down with the
\* remainder r carried in: the quotient's digits and the last remainder.
RECURSIVE DivFrom(_, _, _, _)
DivFrom(a, q, i, r) ==
    IF i = 0 THEN [d |-> << >>, r |-> r]
    ELSE LET cur  == r * Base + a[i]
             rest == DivFrom(a, q, i - 1, cur % q)
         IN  [d |-> rest.d \o << cur \div q >>, r |-> rest.r]

\* Significant bits of a Python float (IEEE 754 binary64).
MantissaBits == 53

\* Fraction bits the quotient of a division is developed to before rounding.
DivScale == 64

\* A non-negative float is [m, e]: the number m * 2^e.
Float(m, e) == [done |-> TRUE, m |-> m, e |-> e]

\* Rounding of an exact result to the nearest float, ties to even.
Round(x) ==
    LET d == BitLen(x.m) - MantissaBits
    IN  IF d <= 0 THEN x
        ELSE LET kept   == ShiftRight(x.m, d)
                 half   == BitAt(x.m, d) = 1
                 sticky == ~LowBitsZero(x.m, d - 1)
                 up     == half /\ (sticky \/ BitAt(kept, 1) = 1)
             IN  Float(IF up THEN BigAdd(kept, << 1 >>) ELSE kept, x.e + d)

\* float(n) for a small int n
FloatOfInt(n) == Float(Big(n), 0)

\* p / q for ints p >= 0 and 0 < q < Base: the correctly rounded quotient.
\* The quotient is developed to DivScale fraction bits; a remainder left
\* makes one more low bit, so that the rounding sees the inexact part.
TrueDiv(p, q) ==
    LET num == ShiftLeft(Big(p), DivScale)
        dv  == DivFrom(num, q, Len(num), 0)
        m   == Trim(dv.d)
    IN  IF dv.r = 0 THEN Round(Float(m, 0 - DivScale))
        ELSE Round(Float(BigAdd(BigTimes(m, 2), << 1 >>), 0 - DivScale - 1))

Min(a, b) == IF a < b THEN a ELSE b

\* The mantissa of x at the exponent e <= x.e
Aligned(x, e) == ShiftLeft(x.m, x.e - e)

\* x + y
FloatAdd(x, y) ==
    LET e == Min(x.e, y.e)
    IN  Round(Float(BigAdd(Aligned(x, e), Aligned(y, e)), e))

\* x - y for x >= y
FloatSub(x, y) ==
    LET e == Min(x.e, y.e)
    IN  Round(Float(BigSub(Aligned(x, e), Aligned(y, e)), e))

\* n * x for an int n >= 0
IntTimesFloat(n, x) == Round(Float(BigTimes(x.m, n), x.e))

\* x < y
FloatLess(x, y) ==
    LET e == Min(x.e, y.e)
    IN  BigLess(Aligned(x, e), Aligned(y, e))

\* int(x)
IntOf(x) ==
    IF x.e >= 0 THEN ToNat(ShiftLeft(x.m, x.e)) ELSE ToNat(ShiftRight(x.m, 0 - x.e))

\* percentile(values, pct) as the interpreter computes it, every operation
\* on floats rounded.
PercentileFloat(vals, p) ==
    IF vals = << >> THEN FloatOfInt(0)
    ELSE LET srt == Sorted(vals)
             k   == IntTimesFloat(Len(srt) - 1, TrueDiv(p, 100))
             f   == IntOf(k)
             c   == Min(f + 1, Len(srt) - 1)
         IN  IF f = c THEN FloatOfInt(srt[f + 1])
             ELSE FloatAdd(IntTimesFloat(srt[f + 1], FloatSub(FloatOfInt(c), k)),
                           IntTimesFloat(srt[c + 1], FloatSub(k, FloatOfInt(f))))

CallPercentileFloat ==
    /\ ~floatOut.done
    /\ floatOut' = PercentileFloat(values, pct)
    /\ UNCHANGED << values, pct, pctOut, meanOut >>
    /\ UNCHANGED utilRest

FloatNext == CallPercentileFloat

FloatSpec == UtilInit /\ [][FloatNext]_vars

\* C39: for a non-empty sample and pct in [0, 100], percentile(values, pct)
\* lies between the minimum and the maximum of the sample, and equals the
\* minimum at pct = 0 and the maximum at pct = 100.
C39_PercentileWithinRange ==
    (floatOut.done /\ values # << >>) =>
        LET srt == Sorted(values)
            lo  == FloatOfInt(srt[1])
            hi  == FloatOfInt(srt[Len(srt)])
        IN  /\ ~FloatLess(floatOut, lo)
            /\ ~FloatLess(hi, floatOut)
            /\ pct = 0 => (~FloatLess(lo, floatOut) /\ ~FloatLess(floatOut, lo))
            /\ pct = 100 => (~FloatLess(hi, floatOut) /\ ~FloatLess(floatOut, hi))


\* ------------------------------------------- the cancellation scenario

\* What run_cancellation leaves alone.
scenRest == << stormOutcome, orchVars, ioVars, utilVars, runResult, taskVars >>

\* The scenario's units are _long_task: a loop of sleeps that only the
\* cancellation ends.
CancelInit ==
    /\ Init
    /\ op = "cancellation_storm"
    /\ \A u \in Units : kinds[u] = "loop"

\* run_cancellation reads launched_at and calls cancellation_storm on the
\* backend instance it was given; a repetition uses the same instance.
RunCancellation(b) ==
    /\ csRuns < MaxReps
    /\ backend \in {"none", b}
    /\ StormLaunch(b)

\* The clock advances between the storm's return and the next reading.
ScenTick ==
    /\ IsStorm /\ pc = "returned"
    /\ now < MaxTime
    /\ now' = now + 1
    /\ UNCHANGED << backend, inputs, pc, ust, cancelPending, cancelReq, stormSignalled,
                    nurseryCancelled, childError, scopes, sigIdx, taskResult, results,
                    completed, cancelled, other_errors, result, launched_at,
                    cancel_start, nCancelRequested, firstFail, policy >>
    /\ UNCHANGED restVars

\* d.update(extra)
DictUpdate(d, extra) ==
    [k \in DOMAIN d \cup DOMAIN extra |-> IF k \in DOMAIN extra THEN extra[k] ELSE d[k]]

\* A reading of finished_at taken when the signal was sent.
FinishedAtBeforeSettle == cancel_start

\* finished_at = time.perf_counter()
FinishedAtReading == now

\* Added keys, one of which is a key of the storm's dict.
ScenarioExtrasClashing(fin) ==
    [tasks          |-> count,
     cancel_after_s |-> cancel_after,
     settle_s       |-> fin - launched_at]

\* The dict run_cancellation adds to the storm's result.
ScenarioExtras(fin) ==
    [tasks          |-> count,
     cancel_after_s |-> cancel_after,
     duration_s     |-> fin - launched_at]

\* cancellation_storm has returned: finished_at is read, the result is
\* updated and returned.
RunCancellationReturn ==
    /\ IsStorm /\ pc = "returned"
    /\ finished_at' = FinishedAtReading
    /\ scenarioResult' = [seen         |-> TRUE,
                          result       |-> DictUpdate(result, ScenarioExtras(finished_at')),
                          storm        |-> result,
                          launched_at  |-> launched_at,
                          cancel_start |-> cancel_start]
    /\ csRuns' = csRuns + 1
    /\ pc' = "idle"
    /\ UNCHANGED << backend, inputs, ust, cancelPending, cancelReq, stormSignalled,
                    nurseryCancelled, childError, scopes, sigIdx, taskResult, results,
                    completed, cancelled, other_errors, result, now, launched_at,
                    cancel_start, nCancelRequested, firstFail, policy >>
    /\ UNCHANGED scenRest

CancelNext ==
    \/ \E u \in Units : UnitStep(u)
    \/ \E b \in Backends : RunCancellation(b)
    \/ AsyncioStormWake
    \/ AsyncioCancelTask
    \/ AsyncioStormReturn
    \/ TrioStormWake
    \/ TrioCancelScope
    \/ TrioStormExit
    \/ AnyioStormSignal
    \/ AnyioStormExit
    \/ Tick
    \/ ScenTick
    \/ RunCancellationReturn

CancelSpec == CancelInit /\ [][CancelNext]_vars

StormKeys == {"cancelled", "exceptions", "settle_s"}

\* C34: run_cancellation returns the storm's dict: cancelled, exceptions and
\* settle_s carry the values cancellation_storm returned, and tasks,
\* cancel_after_s and duration_s are added; no added key is a key of the
\* storm's dict.
C34_ScenarioKeepsStormResult ==
    scenarioResult.seen =>
        LET r == scenarioResult.result
        IN  /\ DOMAIN r = StormKeys \cup {"tasks", "cancel_after_s", "duration_s"}
            /\ \A k \in StormKeys : r[k] = scenarioResult.storm[k]
            /\ r.tasks = count
            /\ r.cancel_after_s = cancel_after
            /\ r.duration_s = finished_at - scenarioResult.launched_at
            /\ DOMAIN ScenarioExtras(finished_at) \cap StormKeys = {}

C34_Witness ==
    /\ scenarioResult.seen
    /\ count >= 2
    /\ scenarioResult.storm.cancelled = count
    /\ scenarioResult.storm.settle_s >= 1
    /\ scenarioResult.result.duration_s > scenarioResult.result.settle_s

\* C37: the storm's state is per call: after a storm on the same backend
\* instance the counters and the set of tracked units of the next storm
\* start empty, and its result counts only its own units.
C37_StormStatePerCall ==
    (IsStorm /\ csRuns >= 1 /\ pc # "idle") =>
        /\ NoneStarted =>
              /\ cancelled = 0 /\ other_errors = 0
              /\ scopes = << >> /\ stormSignalled = {}
        /\ \A i \in 1 .. Len(scopes) : Started(scopes[i])
        /\ pc = "returned" =>
              /\ result.cancelled = Cardinality({u \in Units : ust[u] = "cancelled"})
              /\ result.exceptions = Cardinality({u \in Units : ust[u] = "failed"})

C37_Witness ==
    /\ IsStorm /\ csRuns >= 1 /\ pc = "returned"
    /\ backend = "trio"
    /\ count >= 2
    /\ result.cancelled = count
    /\ scenarioResult.storm.cancelled = count

\* C38: the timestamps of the cancellation scenario are ordered
\* launched_at <= cancel_start <= end of settle <= finished_at on every
\* backend, so duration_s >= settle_s.
C38_TimestampsOrdered ==
    scenarioResult.seen =>
        /\ scenarioResult.launched_at <= scenarioResult.cancel_start
        /\ scenarioResult.storm.settle_s >= 0
        /\ scenarioResult.cancel_start + scenarioResult.storm.settle_s <= finished_at
        /\ scenarioResult.result.duration_s >= scenarioResult.result.settle_s

C38_Witness ==
    /\ scenarioResult.seen
    /\ count >= 1
    /\ scenarioResult.launched_at < scenarioResult.cancel_start
    /\ scenarioResult.storm.settle_s >= 1

====
